---------------------------- MODULE Spec2Model ----------------------------
(***************************************************************************)
(* Model of the FraudDetector coordinator (fraud_detector.py): the         *)
(* transaction store, the graph snapshot, the detection parameters, the    *)
(* stored detection results, and one action per public method.             *)
(*                                                                         *)
(* Conventions                                                             *)
(*   - timestamps are whole hours; a difference of timestamps is the       *)
(*     value of (t2 - t1).total_seconds() / 3600;                          *)
(*   - the three fractional parameters (smurfing_amount_ratio,             *)
(*     anomaly_degree_threshold, anomaly_isolation_threshold) are held in  *)
(*     tenths: 0.8 is 8, with Tenth the denominator;                       *)
(*   - a Python None (the graph before build_graph, an override that is    *)
(*     not passed) is the record None, respectively a key that is absent   *)
(*     from the call's args;                                               *)
(*   - each method is an operator (its name followed by _call) giving what *)
(*     a call leaves behind; an action applies it to inputs drawn from     *)
(*     small sets;                                                         *)
(*   - op is the method called last ("" before the first call), raised    *)
(*     the exception that call ended with ("" when it returned), returned  *)
(*     the value it returned (None when it raised), filters the keyword    *)
(*     arguments of the build_graph call that built the current graph, and *)
(*     calls the number of calls made so far.                              *)
(***************************************************************************)
EXTENDS Integers, Sequences, FiniteSets, TLC

VARIABLES transactions, graph, detection_params, detection_results,
          op, raised, returned, filters, calls

vars == <<transactions, graph, detection_params, detection_results,
          op, raised, returned, filters, calls>>

\* ------------------------------------------------------------------ bounds

\* Longest transaction list passed to load_transactions.
MaxTx == 3
\* Longest list of transactions around one account (the hub specification).
MaxStarTx == 6
\* Longest list of transactions whose findings tie on a risk score.
MaxTieTx == 5
\* Most method calls made on one coordinator.
MaxCalls == 3
\* Largest value passed as an integer override or to set_detection_params.
MaxValue == 2
\* Most keyword arguments in one set_detection_params call.
MaxKwargs == 2
\* Most optional arguments passed to one detector call.
MaxOverrides == 2

\* Denominator of the fractional parameters.
Tenth == 10

None == [is_none |-> TRUE]

\* ------------------------------------------------------------ generic helpers

Range(s) == {s[i] : i \in DOMAIN s}

RECURSIVE SumSeq(_)
SumSeq(s) == IF s = <<>> THEN 0 ELSE Head(s) + SumSeq(Tail(s))

Min2(a, b) == IF a <= b THEN a ELSE b
Max2(a, b) == IF a >= b THEN a ELSE b

SetMax(S) == CHOOSE x \in S : \A y \in S : y <= x
SetMin(S) == CHOOSE x \in S : \A y \in S : x <= y

\* All sequences of pairwise distinct elements of S of length at most n.
RECURSIVE DistinctSeqs(_, _)
DistinctSeqs(S, n) ==
    IF n = 0 THEN {<<>>}
    ELSE LET shorter == DistinctSeqs(S, n - 1)
         IN  shorter \cup
             UNION {{Append(s, x) : x \in S \ Range(s)} :
                        s \in {t \in shorter : Len(t) = n - 1}}

\* dict[key] = value on a Python dict: the key is added when it is absent.
DictSet(d, key, value) ==
    [k \in DOMAIN d \cup {key} |-> IF k = key THEN value ELSE d[k]]

\* ------------------------------------------------------------- transactions

Tx(id, sender, receiver, amount, timestamp) ==
    [transaction_id |-> id, sender_id |-> sender, receiver_id |-> receiver,
     amount |-> amount, timestamp |-> timestamp]

\* The transaction records the callers draw their lists from.  Every record
\* has its own transaction_id.
TxPool ==
    { Tx("L1", "A", "B", 40000, 0),
      Tx("L2", "B", "C", 40000, 1),
      Tx("L3", "C", "A", 40000, 2),
      Tx("S1", "H", "N1", 1, 0),
      Tx("S2", "H", "N2", 1, 0),
      Tx("S3", "H", "N3", 1, 0),
      Tx("S4", "H", "N4", 1, 0),
      Tx("S5", "H", "N5", 1, 0),
      Tx("S6", "N1", "H", 1, 0),
      Tx("S7", "N1", "N2", 1, 0),
      Tx("T1", "A", "B", 1, 0),
      Tx("T2", "A", "B", 2, 2),
      Tx("T3", "B", "A", 1, 0),
      Tx("T4", "B", "C", 1, 1),
      Tx("T5", "C", "A", 1, 2),
      Tx("T6", "C", "B", 0 - 1, 1),
      Tx("T7", "A", "B", 2, 2),
      Tx("T8", "C", "B", 2, 4),
      Tx("T9", "C", "D", 1, 3),
      Tx("U1", "B", "C", 1, 0),
      Tx("U2", "C", "B", 1, 0) }

\* The transaction ids in increasing order.
TxIds == <<"L1", "L2", "L3", "S1", "S2", "S3", "S4", "S5", "S6", "S7", "T1", "T2", "T3", "T4", "T5", "T6", "T7", "T8", "T9", "U1", "U2">>

TxOf(id) == CHOOSE tx \in TxPool : tx.transaction_id = id

Reverse(s) == [i \in DOMAIN s |-> s[Len(s) + 1 - i]]

\* The lists of at most MaxTx records with their ids in ids, in increasing
\* or in decreasing order of transaction_id.
CorporaOf(ids) ==
    LET chosen(S) == LET in(id) == id \in S IN SelectSeq(ids, in)
        up == {[i \in DOMAIN chosen(S) |-> TxOf(chosen(S)[i])] :
                  S \in {T \in SUBSET Range(ids) : Cardinality(T) <= MaxTx}}
    IN  up \cup {Reverse(s) : s \in up}

\* The lists passed to load_transactions.
Corpora == CorporaOf(<<"T1", "T2", "T3", "T4", "T5", "T6">>)

\* The same with the records that tie on a timestamp (T2, T7) or follow
\* each other at equal distance (T1, T2, T8), and the longest lists that
\* reach a fourth account (T9) or carry large amounts (L1, L2, L3).
WideCorpora ==
    CorporaOf(<<"T1", "T2", "T3", "T4", "T5", "T6", "T7", "T8">>) \cup
    {c \in CorporaOf(<<"T1", "T4", "T5", "T9">>) : Len(c) = MaxTx} \cup
    {c \in CorporaOf(<<"L1", "L2", "L3">>) : Len(c) = MaxTx}

\* The lists of more than MaxTx and at most MaxTieTx records, in increasing
\* or in decreasing order of transaction_id, drawn from the two loops
\* A <-> B (T1, T3) and B <-> C (U1, U2), which carry the same amounts at
\* the same time, and from T2, T4, T5, T7, T9, where the pairs sent by A
\* and by C weigh as much as the community around C.
TieCorpora ==
    LET lists(ids) ==
            LET chosen(S) == LET in(id) == id \in S IN SelectSeq(ids, in)
                up == {[i \in DOMAIN chosen(S) |-> TxOf(chosen(S)[i])] :
                          S \in {T \in SUBSET Range(ids) :
                                    Cardinality(T) > MaxTx /\ Cardinality(T) <= MaxTieTx}}
            IN  up \cup {Reverse(l) : l \in up}
    IN  lists(<<"T1", "T3", "U1", "U2">>) \cup lists(<<"T2", "T4", "T5", "T7", "T9">>)

\* The lists of at most MaxStarTx transactions around the account H (S1 to
\* S5 leave H, S6 enters it, S7 passes it by), in increasing order of
\* transaction_id.
StarCorpora ==
    LET ids == <<"S1", "S2", "S3", "S4", "S5", "S6", "S7">>
        chosen(S) == LET in(id) == id \in S IN SelectSeq(ids, in)
    IN  {[i \in DOMAIN chosen(S) |-> TxOf(chosen(S)[i])] :
            S \in {T \in SUBSET Range(ids) : Cardinality(T) <= MaxStarTx}}

\* utils.validate_transactions: a list is valid when every amount is a
\* number >= 0 (the transaction input contract).
validate_transactions(txs) == \A i \in DOMAIN txs : txs[i].amount >= 0

\* --------------------------------------------------------------- parameters

CycleKeys == {"cycle_min_length", "cycle_max_length", "cycle_time_window_hours"}
SmurfingKeys == {"smurfing_threshold", "smurfing_min_transactions",
                 "smurfing_time_window_hours", "smurfing_amount_ratio"}
AnomalyKeys == {"anomaly_degree_threshold", "anomaly_burst_threshold",
                "anomaly_burst_window_hours", "anomaly_isolation_threshold"}

\* The 11 enumerated parameters.
ParamKeys == CycleKeys \cup SmurfingKeys \cup AnomalyKeys

\* FraudDetector.__init__: the defaults of detection_params.
DefaultParams ==
    [k \in ParamKeys |->
        CASE k = "cycle_min_length" -> 3
          [] k = "cycle_max_length" -> 10
          [] k = "cycle_time_window_hours" -> 72
          [] k = "smurfing_threshold" -> 10000
          [] k = "smurfing_min_transactions" -> 5
          [] k = "smurfing_time_window_hours" -> 48
          [] k = "smurfing_amount_ratio" -> 8
          [] k = "anomaly_degree_threshold" -> 1
          [] k = "anomaly_burst_threshold" -> 20
          [] k = "anomaly_burst_window_hours" -> 2
          [] k = "anomaly_isolation_threshold" -> 7]

EmptyResults ==
    [money_laundering_cycles |-> <<>>,
     smurfing_patterns |-> <<>>,
     network_anomalies |-> <<>>]

\* The keyword names callers pass to set_detection_params: one of the
\* enumerated parameters and one name that is not a parameter.
KwargKeys == {"smurfing_min_transactions", "max_cycle_length"}

\* **kwargs of one set_detection_params call: an ordered list of
\* <<key, value>> with pairwise distinct keys.
KwargLists ==
    {kw \in DistinctSeqs(KwargKeys \X (1..MaxValue), MaxKwargs) :
        /\ kw # <<>>
        /\ \A i, j \in DOMAIN kw : i # j => kw[i][1] # kw[j][1]}

\* set_detection_params without the test of the key: every key is assigned.
RECURSIVE SetParamsLoopAnyKey(_, _, _)
SetParamsLoopAnyKey(params, kw, from) ==
    IF from > Len(kw) THEN [params |-> params, raised |-> ""]
    ELSE SetParamsLoopAnyKey(DictSet(params, kw[from][1], kw[from][2]), kw, from + 1)

\* The loop of set_detection_params over kwargs[from..]: each known key is
\* assigned in turn and the first unknown key raises, which ends the loop
\* with the assignments made so far in place.
RECURSIVE SetParamsLoop(_, _, _)
SetParamsLoop(params, kw, from) ==
    IF from > Len(kw) THEN [params |-> params, raised |-> ""]
    ELSE IF kw[from][1] \in DOMAIN params
         THEN SetParamsLoop(DictSet(params, kw[from][1], kw[from][2]), kw, from + 1)
         ELSE [params |-> params, raised |-> "UnknownParameter"]

\* -------------------------------------------------------------------- graph

FilterKeys == {"min_amount", "max_amount", "date_start", "date_end"}

\* The filter values callers pass to build_graph.
FilterValue ==
    [k \in FilterKeys |->
        CASE k = "min_amount" -> 2
          [] k = "max_amount" -> 1
          [] k = "date_start" -> 2
          [] k = "date_end" -> 1]

\* The keyword arguments of one build_graph call: any subset of the four
\* filters (a filter left out is None).
FilterArgs == {[k \in S |-> FilterValue[k]] : S \in SUBSET FilterKeys}

\* Graph Builder errors: contradictory bounds.
InvalidFilter(f) ==
    \/ {"min_amount", "max_amount"} \subseteq DOMAIN f /\ f["min_amount"] > f["max_amount"]
    \/ {"date_start", "date_end"} \subseteq DOMAIN f /\ f["date_start"] > f["date_end"]

\* A transaction passes every active filter.
PassesFilters(tx, f) ==
    /\ "min_amount" \in DOMAIN f => tx.amount >= f["min_amount"]
    /\ "max_amount" \in DOMAIN f => tx.amount <= f["max_amount"]
    /\ "date_start" \in DOMAIN f => tx.timestamp >= f["date_start"]
    /\ "date_end" \in DOMAIN f => tx.timestamp <= f["date_end"]

\* The accounts of txs in order of first appearance, sender before receiver
\* (the insertion order of the graph's nodes).
RECURSIVE NodeOrder(_)
NodeOrder(txs) ==
    IF txs = <<>> THEN <<>>
    ELSE LET before == NodeOrder(SubSeq(txs, 1, Len(txs) - 1))
             tx == txs[Len(txs)]
             withSender == IF tx.sender_id \in Range(before) THEN before
                           ELSE Append(before, tx.sender_id)
         IN  IF tx.receiver_id \in Range(withSender) THEN withSender
             ELSE Append(withSender, tx.receiver_id)

\* utils.build_transaction_graph: the directed graph of the filtered
\* transactions, one edge per ordered pair with the sum of the amounts and
\* the number of contributing transactions.
build_transaction_graph(txs, f) ==
    LET passes(tx) == PassesFilters(tx, f)
        kept == SelectSeq(txs, passes)
        edges == {<<kept[i].sender_id, kept[i].receiver_id>> : i \in DOMAIN kept}
        amountsOf(e) ==
            LET onEdge(tx) == tx.sender_id = e[1] /\ tx.receiver_id = e[2]
                sel == SelectSeq(kept, onEdge)
            IN  [i \in DOMAIN sel |-> sel[i].amount]
    IN  [nodes |-> NodeOrder(kept),
         edges |-> edges,
         weight |-> [e \in edges |-> SumSeq(amountsOf(e))],
         count |-> [e \in edges |-> Len(amountsOf(e))]]

\* ------------------------------------------------------- numeric helpers

\* Scores are fixed-point numbers: Scale is 1.0 of a score factor, and a
\* risk_score is a number of ScoreOne-ths (ScoreOne is 1.0).
Scale == 1000
ScoreOne == 100 * Scale

\* floor(sqrt(n)) by bisection on lo..hi.
RECURSIVE ISqrtIn(_, _, _)
ISqrtIn(n, lo, hi) ==
    IF lo >= hi THEN lo
    ELSE LET mid == (lo + hi + 1) \div 2
         IN  IF mid <= n \div mid THEN ISqrtIn(n, mid, hi) ELSE ISqrtIn(n, lo, mid - 1)

ISqrt(n) == IF n <= 0 THEN 0 ELSE ISqrtIn(n, 0, Min2(n, 46340))

Squares(xs) == [i \in DOMAIN xs |-> xs[i] * xs[i]]

\* Len(xs)^2 times the population variance of xs (np.std squared), that is
\* Len(xs) * sum(x^2) - sum(x)^2, summed as the squares of the differences
\* of every two elements.
RECURSIVE VarNum(_)
VarNum(xs) ==
    IF Len(xs) <= 1 THEN 0
    ELSE LET rest == Tail(xs)
         IN  SumSeq(Squares([i \in DOMAIN rest |-> Head(xs) - rest[i]])) + VarNum(rest)

\* np.std(xs) / np.mean(xs) as a fixed-point number, for SumSeq(xs) > 0.
CvFixed(xs) == ISqrt(VarNum(xs) * Scale * Scale) \div SumSeq(xs)

\* np.std(xs) / np.mean(xs) <= 1 - ratio, decided exactly (ratio in tenths),
\* for SumSeq(xs) > 0.
CvAtMost(xs, ratio) ==
    /\ Tenth - ratio >= 0
    /\ VarNum(xs) * Tenth * Tenth
         <= (Tenth - ratio) * (Tenth - ratio) * SumSeq(xs) * SumSeq(xs)

\* list.sort(key=lambda x: x['timestamp']): stable, ascending.
RECURSIVE SortByTimestamp(_)
SortByTimestamp(s) ==
    IF s = <<>> THEN <<>>
    ELSE LET x == s[Len(s)]
             rest == SortByTimestamp(SubSeq(s, 1, Len(s) - 1))
             notAfter(y) == y.timestamp <= x.timestamp
             after(y) == y.timestamp > x.timestamp
         IN  SelectSeq(rest, notAfter) \o <<x>> \o SelectSeq(rest, after)

\* The findings left in the order in which they were found.
Unsorted(s) == s

\* list.sort(key=lambda x: x['risk_score'], reverse=True): stable, descending.
RECURSIVE SortByRiskDesc(_)
SortByRiskDesc(s) ==
    IF s = <<>> THEN <<>>
    ELSE LET x == s[Len(s)]
             rest == SortByRiskDesc(SubSeq(s, 1, Len(s) - 1))
             notBelow(y) == y.risk_score >= x.risk_score
             below(y) == y.risk_score < x.risk_score
         IN  SelectSeq(rest, notBelow) \o <<x>> \o SelectSeq(rest, below)

\* max(txs, key=lambda x: x['timestamp']): the first element of txs that
\* has the largest timestamp.
MaxByTimestamp(txs) ==
    LET top == SetMax({txs[i].timestamp : i \in DOMAIN txs})
        i == SetMin({j \in DOMAIN txs : txs[j].timestamp = top})
    IN  txs[i]

\* value or default, for an optional argument: None (the key is absent) and
\* 0 are falsy.
OrDefault(args, name, default) ==
    IF name \in DOMAIN args /\ args[name] # 0 THEN args[name] ELSE default

\* ---------------------------------------------------------- cycle detector

\* The simple directed cycles of g, each one listed from the node of it that
\* comes first in the graph's node order.
SimpleCycles(g) ==
    LET n == Len(g.nodes)
        pos(v) == CHOOSE i \in DOMAIN g.nodes : g.nodes[i] = v
    IN  {c \in DistinctSeqs(Range(g.nodes), n) :
            /\ c # <<>>
            /\ \A i \in DOMAIN c : <<c[i], c[(i % Len(c)) + 1]>> \in g.edges
            /\ \A i \in DOMAIN c : i > 1 => pos(c[1]) < pos(c[i])}

\* utils.find_cycles_in_graph(graph, min_length): the lists it may return,
\* the simple cycles of length >= min_length in any order of enumeration.
find_cycles_in_graph(g, min_length) ==
    LET found == {c \in SimpleCycles(g) : Len(c) >= min_length}
    IN  {e \in DistinctSeqs(found, Cardinality(found)) : Len(e) = Cardinality(found)}

\* _calculate_cycle_risk_score
calculate_cycle_risk_score(cycle, total_amount, amounts, time_span) ==
    LET amount_score == Min2((total_amount * Scale) \div 100000, Scale)
        variation_ratio == IF SumSeq(amounts) > 0 THEN CvFixed(amounts) ELSE Scale
        variation_score == IF Len(amounts) > 1
                           THEN Max2(0, Scale - variation_ratio) ELSE 0
        time_score == Max2(0, Scale - (time_span * Scale) \div 72)
        length_score == Min2((Len(cycle) * Scale) \div 10, Scale)
    IN  Min2(30 * amount_score + 25 * variation_score
               + 25 * time_score + 20 * length_score, ScoreOne)

\* A representative chosen among all the transactions of the sender,
\* whoever receives them.
RepresentativeOfSender(store, sender, receiver) ==
    LET sent(tx) == tx.sender_id = sender
        txs == SelectSeq(store, sent)
    IN  IF txs = <<>> THEN None ELSE MaxByTimestamp(txs)

\* The representative transaction of the edge sender -> receiver: the most
\* recent one in the store, None when there is none.
Representative(store, sender, receiver) ==
    LET onEdge(tx) == tx.sender_id = sender /\ tx.receiver_id = receiver
        txs == SelectSeq(store, onEdge)
    IN  IF txs = <<>> THEN None ELSE MaxByTimestamp(txs)

\* _analyze_cycle(cycle, time_window_hours) on the store: the finding, or
\* None when an edge has no transaction or the cycle is too spread in time.
analyze_cycle(store, cycle, time_window_hours) ==
    LET n == Len(cycle)
        cycle_transactions ==
            [i \in 1..n |-> Representative(store, cycle[i], cycle[(i % n) + 1])]
    IN  IF \E i \in 1..n : cycle_transactions[i] = None THEN None
        ELSE LET amounts == [i \in 1..n |-> cycle_transactions[i].amount]
                 total_amount == SumSeq(amounts)
                 timestamps == {cycle_transactions[i].timestamp : i \in 1..n}
                 time_span == SetMax(timestamps) - SetMin(timestamps)
             IN  IF time_span > time_window_hours THEN None
                 ELSE [cycle |-> cycle,
                       length |-> n,
                       total_amount |-> total_amount,
                       transactions |-> cycle_transactions,
                       time_span_hours |-> time_span,
                       amounts |-> amounts,
                       risk_score |-> calculate_cycle_risk_score(
                                          cycle, total_amount, amounts, time_span),
                       detection_type |-> "money_laundering_cycle"]

\* The loop with the length filter off by one: a cycle of max_length nodes
\* is skipped too.
RECURSIVE CycleLoopBelowMax(_, _, _, _)
CycleLoopBelowMax(store, all_cycles, max_length, time_window_hours) ==
    IF all_cycles = <<>> THEN <<>>
    ELSE LET cycle == Head(all_cycles)
             rest == CycleLoopBelowMax(store, Tail(all_cycles),
                                       max_length, time_window_hours)
         IN  IF max_length # 0 /\ Len(cycle) >= max_length THEN rest
             ELSE LET cycle_info == analyze_cycle(store, cycle, time_window_hours)
                  IN  IF cycle_info = None THEN rest ELSE <<cycle_info>> \o rest

\* The loop of detect_money_laundering_cycles over all_cycles.
RECURSIVE CycleLoop(_, _, _, _)
CycleLoop(store, all_cycles, max_length, time_window_hours) ==
    IF all_cycles = <<>> THEN <<>>
    ELSE LET cycle == Head(all_cycles)
             rest == CycleLoop(store, Tail(all_cycles), max_length, time_window_hours)
         IN  IF max_length # 0 /\ Len(cycle) > max_length THEN rest
             ELSE LET cycle_info == analyze_cycle(store, cycle, time_window_hours)
                  IN  IF cycle_info = None THEN rest ELSE <<cycle_info>> \o rest

\* The values detect_money_laundering_cycles(**args) works with.
CycleMinLength(args) ==
    OrDefault(args, "min_length", detection_params["cycle_min_length"])
CycleMaxLength(args) ==
    OrDefault(args, "max_length", detection_params["cycle_max_length"])
CycleTimeWindow(args) ==
    OrDefault(args, "time_window_hours", detection_params["cycle_time_window_hours"])

\* detect_money_laundering_cycles(**args), with all_cycles the list that
\* find_cycles_in_graph returns: the exception raised ("" for none) and the
\* list returned.
detect_money_laundering_cycles_result(args, all_cycles) ==
    IF graph = None THEN [raised |-> "GraphNotBuilt", returned |-> <<>>]
    ELSE [raised |-> "",
          returned |-> SortByRiskDesc(
              CycleLoop(transactions, all_cycles,
                        CycleMaxLength(args), CycleTimeWindow(args)))]

\* ------------------------------------------------------- smurfing detector

\* The window anchored at txs[i], txs sorted by timestamp: txs[i] and the
\* transactions after it, up to the first one more than window_hours later.
WindowFrom(txs, i, window_hours) ==
    LET inside(j) == txs[j].timestamp - txs[i].timestamp <= window_hours
        last == SetMax({j \in i..Len(txs) : \A k \in (i + 1)..j : inside(k)})
    IN  SubSeq(txs, i, last)

AmountsOf(txs) == [i \in DOMAIN txs |-> txs[i].amount]

\* _calculate_smurfing_risk_score
calculate_smurfing_risk_score(pattern, total_amount, threshold) ==
    LET n == Len(pattern.transactions)
        num_tx_score == Min2((n * Scale) \div 20, Scale)
        amount_score == Min2((total_amount * Scale) \div 200000, Scale)
        proximity_score == Max2(0, Scale - (total_amount * Scale) \div (n * threshold))
        similarity_score == Scale - pattern.cv
    IN  Min2(30 * num_tx_score + 30 * amount_score
               + 20 * proximity_score + 20 * similarity_score, ScoreOne)

\* The patterns list of _analyze_smurfing_pattern: one entry per accepted
\* window, in the order of the window starts.
RECURSIVE SmurfingPatterns(_, _, _, _)
SmurfingPatterns(sorted, i, time_window_hours, amount_ratio) ==
    IF i > Len(sorted) THEN <<>>
    ELSE LET window_txs == WindowFrom(sorted, i, time_window_hours)
             amounts == AmountsOf(window_txs)
             rest == SmurfingPatterns(sorted, i + 1, time_window_hours, amount_ratio)
         IN  IF /\ Len(window_txs) >= detection_params["smurfing_min_transactions"]
                /\ SumSeq(amounts) > 0
                /\ CvAtMost(amounts, amount_ratio)
             THEN <<[transactions |-> window_txs,
                     amounts |-> amounts,
                     cv |-> CvFixed(amounts)]>> \o rest
             ELSE rest

\* max(patterns, key=lambda p: len(p['transactions'])): the first pattern of
\* the largest length.
BestPattern(patterns) ==
    LET top == SetMax({Len(patterns[i].transactions) : i \in DOMAIN patterns})
        i == SetMin({j \in DOMAIN patterns : Len(patterns[j].transactions) = top})
    IN  patterns[i]

\* _analyze_smurfing_pattern
analyze_smurfing_pattern(pivot_account, incoming_txs, threshold, time_window_hours, amount_ratio) ==
    LET sorted == SortByTimestamp(incoming_txs)
        patterns == SmurfingPatterns(sorted, 1, time_window_hours, amount_ratio)
    IN  IF patterns = <<>> THEN None
        ELSE LET best_pattern == BestPattern(patterns)
                 total_amount == SumSeq(best_pattern.amounts)
             IN  [pivot_account |-> pivot_account,
                  total_amount |-> total_amount,
                  num_transactions |-> Len(best_pattern.transactions),
                  avg_amount |-> [num |-> total_amount,
                                  den |-> Len(best_pattern.amounts)],
                  transactions |-> best_pattern.transactions,
                  coefficient_of_variation |-> best_pattern.cv,
                  risk_score |-> calculate_smurfing_risk_score(
                                     best_pattern, total_amount, threshold),
                  detection_type |-> "smurfing"]

\* The values detect_smurfing(**args) works with.
SmurfingThreshold(args) ==
    OrDefault(args, "threshold", detection_params["smurfing_threshold"])
SmurfingMinTransactions(args) ==
    OrDefault(args, "min_transactions", detection_params["smurfing_min_transactions"])
SmurfingTimeWindow(args) ==
    OrDefault(args, "time_window_hours", detection_params["smurfing_time_window_hours"])
SmurfingAmountRatio(args) ==
    OrDefault(args, "amount_ratio", detection_params["smurfing_amount_ratio"])

\* The loop of detect_smurfing over graph.nodes()[from..].
RECURSIVE SmurfingLoop(_, _, _)
SmurfingLoop(store, args, from) ==
    IF from > Len(graph.nodes) THEN <<>>
    ELSE LET node == graph.nodes[from]
             threshold == SmurfingThreshold(args)
             incoming(tx) == tx.receiver_id = node /\ tx.amount < threshold
             incoming_txs == SelectSeq(store, incoming)
             rest == SmurfingLoop(store, args, from + 1)
         IN  IF Len(incoming_txs) < SmurfingMinTransactions(args) THEN rest
             ELSE LET pattern_info ==
                          analyze_smurfing_pattern(
                              node, incoming_txs, threshold,
                              SmurfingTimeWindow(args), SmurfingAmountRatio(args))
                  IN  IF pattern_info = None THEN rest
                      ELSE <<pattern_info>> \o rest

\* detect_smurfing taking a graph that is not built for an empty one.
detect_smurfing_result_no_check(args) ==
    [raised |-> "",
     returned |-> IF graph = None THEN <<>>
                  ELSE SortByRiskDesc(SmurfingLoop(transactions, args, 1))]

\* detect_smurfing(**args): the exception raised and the list returned.
detect_smurfing_result(args) ==
    IF graph = None THEN [raised |-> "GraphNotBuilt", returned |-> <<>>]
    ELSE [raised |-> "",
          returned |-> SortByRiskDesc(SmurfingLoop(transactions, args, 1))]

\* -------------------------------------------------------- anomaly detector

\* The senders of store in order of first appearance (the key order of the
\* sender_txs dict).
RECURSIVE SenderOrder(_)
SenderOrder(store) ==
    IF store = <<>> THEN <<>>
    ELSE LET before == SenderOrder(SubSeq(store, 1, Len(store) - 1))
             sender == store[Len(store)].sender_id
         IN  IF sender \in Range(before) THEN before ELSE Append(before, sender)

\* _calculate_burst_risk_score
calculate_burst_risk_score(window_txs, threshold, window_hours) ==
    LET n == Len(window_txs)
        num_tx_score == Min2((n * Scale) \div (threshold * 2), Scale)
        density_score == Min2((n * Scale) \div (window_hours * 20), Scale)
    IN  Min2(50 * num_tx_score + 50 * density_score, ScoreOne)

\* The window loop without its break: a finding for every window of at
\* least burst_threshold transactions.
RECURSIVE EveryBurst(_, _, _, _, _)
EveryBurst(sender, txs, i, burst_threshold, burst_window_hours) ==
    IF i > Len(txs) THEN <<>>
    ELSE LET window_txs == WindowFrom(txs, i, burst_window_hours)
             rest == EveryBurst(sender, txs, i + 1, burst_threshold, burst_window_hours)
         IN  IF Len(window_txs) >= burst_threshold
             THEN <<[account |-> sender,
                     anomaly_type |-> "burst",
                     num_transactions |-> Len(window_txs),
                     time_window_hours |-> burst_window_hours,
                     transactions |-> window_txs,
                     risk_score |-> calculate_burst_risk_score(
                                        window_txs, burst_threshold, burst_window_hours),
                     detection_type |-> "network_anomaly"]>> \o rest
             ELSE rest

\* The window loop of _detect_burst_anomalies for one sender, from index i:
\* the finding of the first window of at least burst_threshold
\* transactions, as a list of at most one element.
RECURSIVE FirstBurst(_, _, _, _, _)
FirstBurst(sender, txs, i, burst_threshold, burst_window_hours) ==
    IF i > Len(txs) THEN <<>>
    ELSE LET window_txs == WindowFrom(txs, i, burst_window_hours)
         IN  IF Len(window_txs) >= burst_threshold
             THEN <<[account |-> sender,
                     anomaly_type |-> "burst",
                     num_transactions |-> Len(window_txs),
                     time_window_hours |-> burst_window_hours,
                     transactions |-> window_txs,
                     risk_score |-> calculate_burst_risk_score(
                                        window_txs, burst_threshold, burst_window_hours),
                     detection_type |-> "network_anomaly"]>>
             ELSE FirstBurst(sender, txs, i + 1, burst_threshold, burst_window_hours)

\* The sender loop of _detect_burst_anomalies over senders[from..].
RECURSIVE BurstLoop(_, _, _, _, _)
BurstLoop(store, senders, from, burst_threshold, burst_window_hours) ==
    IF from > Len(senders) THEN <<>>
    ELSE LET sender == senders[from]
             sent(tx) == tx.sender_id = sender
             txs == SelectSeq(store, sent)
             rest == BurstLoop(store, senders, from + 1,
                               burst_threshold, burst_window_hours)
         IN  IF Len(txs) < burst_threshold THEN rest
             ELSE FirstBurst(sender, SortByTimestamp(txs), 1,
                             burst_threshold, burst_window_hours) \o rest

\* _detect_burst_anomalies
detect_burst_anomalies(store, burst_threshold, burst_window_hours) ==
    BurstLoop(store, SenderOrder(store), 1, burst_threshold, burst_window_hours)

\* Centrality services (utils.compute_centrality_metrics).

\* in_degree(v) + out_degree(v)
Degree(g, v) ==
    Cardinality({e \in g.edges : e[1] = v}) + Cardinality({e \in g.edges : e[2] = v})

\* degree_centrality(v) = Degree(v) / DegreeDen, 0 when there is one node.
DegreeDen(g) == 2 * (Len(g.nodes) - 1)

DegreeSeq(g) == [i \in DOMAIN g.nodes |-> Degree(g, g.nodes[i])]

\* Number of directed walks of k edges from s to t.
RECURSIVE Walks(_, _, _, _)
Walks(g, s, t, k) ==
    IF k = 0 THEN (IF s = t THEN 1 ELSE 0)
    ELSE SumSeq([i \in DOMAIN g.nodes |->
                    IF <<s, g.nodes[i]>> \in g.edges
                    THEN Walks(g, g.nodes[i], t, k - 1) ELSE 0])

\* Length of a shortest directed path from s to t (s # t), 0 when there is none.
Dist(g, s, t) ==
    LET ks == {k \in 1..(Len(g.nodes) - 1) : Walks(g, s, t, k) > 0}
    IN  IF ks = {} THEN 0 ELSE SetMin(ks)

\* Number of shortest directed paths from s to t.
Sigma(g, s, t) == Walks(g, s, t, Dist(g, s, t))

\* betweenness_centrality(v), fixed-point: the normalised sum over the
\* ordered pairs (s, t) of the share of shortest paths through v.
betweenness_centrality(g, v) ==
    LET n == Len(g.nodes)
        share(s, t) ==
            IF \/ s = t \/ s = v \/ t = v \/ Dist(g, s, t) = 0
               \/ Dist(g, s, v) = 0 \/ Dist(g, v, t) = 0
               \/ Dist(g, s, v) + Dist(g, v, t) # Dist(g, s, t)
            THEN 0
            ELSE (Sigma(g, s, v) * Sigma(g, v, t) * Scale) \div Sigma(g, s, t)
        row(s) == SumSeq([j \in DOMAIN g.nodes |-> share(s, g.nodes[j])])
        total == SumSeq([i \in DOMAIN g.nodes |-> row(g.nodes[i])])
    IN  IF n <= 2 THEN 0 ELSE total \div ((n - 1) * (n - 2))

\* One step of the PageRank iteration (damping 0.85), fixed-point, on the
\* ranks pr (a sequence parallel to g.nodes).
PageRankStep(g, pr) ==
    LET n == Len(g.nodes)
        out(i) == Cardinality({e \in g.edges : e[1] = g.nodes[i]})
        dangling == SumSeq([i \in 1..n |-> IF out(i) = 0 THEN pr[i] ELSE 0])
        inflow(j) == SumSeq([i \in 1..n |->
                        IF <<g.nodes[i], g.nodes[j]>> \in g.edges
                        THEN pr[i] \div out(i) ELSE 0])
    IN  [j \in 1..n |->
            (15 * (Scale \div n) + 85 * (inflow(j) + dangling \div n)) \div 100]

\* The PageRank fixpoint: at most left more iterations.
RECURSIVE PageRankIter(_, _, _)
PageRankIter(g, pr, left) ==
    LET next == PageRankStep(g, pr)
    IN  IF left = 0 \/ next = pr THEN pr ELSE PageRankIter(g, next, left - 1)

pagerank(g) ==
    PageRankIter(g, [i \in DOMAIN g.nodes |-> Scale \div Len(g.nodes)], 100)

\* _calculate_hub_risk_score: dev / sqrt(var) is (degree - mean) / std.
calculate_hub_risk_score(dev, var, betweenness, rank) ==
    LET z == IF var > 0 THEN (dev * Scale * Scale) \div ISqrt(var * Scale * Scale)
             ELSE 0
        z_score == Min2(z, 5 * Scale)
        betweenness_score == Min2(betweenness * 10, Scale)
        pagerank_score == Min2(rank * 10, Scale)
    IN  Min2(40 * (z_score \div 5) + 30 * betweenness_score
               + 30 * pagerank_score, ScoreOne)

\* _detect_hub_anomalies flagging a degree centrality equal to
\* degree_threshold too.
detect_hub_anomalies_from(g, degree_threshold) ==
    LET n == Len(g.nodes)
        ds == DegreeSeq(g)
        total == SumSeq(ds)
        var == VarNum(ds)
        ranks == pagerank(g)
        isHub(i) ==
            /\ n > 1
            /\ Tenth * ds[i] >= degree_threshold * DegreeDen(g)
            /\ n * ds[i] - total > 0
            /\ (n * ds[i] - total) * (n * ds[i] - total) > 4 * var
        hub(i) ==
            [account |-> g.nodes[i],
             anomaly_type |-> "hub",
             centrality_metrics |->
                [degree_centrality |-> [num |-> ds[i], den |-> DegreeDen(g)],
                 betweenness_centrality |-> betweenness_centrality(g, g.nodes[i]),
                 pagerank |-> ranks[i]],
             threshold |-> 0,
             risk_score |-> 0,
             detection_type |-> "network_anomaly"]
        RECURSIVE HubLoop(_)
        HubLoop(i) == IF i > n THEN <<>>
                      ELSE (IF isHub(i) THEN <<hub(i)>> ELSE <<>>) \o HubLoop(i + 1)
    IN  HubLoop(1)

\* _detect_hub_anomalies: a node is a hub when its degree centrality is
\* above max(degree_threshold, mean + 2 * std), decided exactly; the
\* threshold field holds that maximum as a fixed-point number.
detect_hub_anomalies(g, degree_threshold) ==
    LET n == Len(g.nodes)
        ds == DegreeSeq(g)
        total == SumSeq(ds)
        var == VarNum(ds)
        ranks == pagerank(g)
        isHub(i) ==
            /\ n > 1
            /\ Tenth * ds[i] > degree_threshold * DegreeDen(g)
            /\ n * ds[i] - total > 0
            /\ (n * ds[i] - total) * (n * ds[i] - total) > 4 * var
        hub(i) ==
            [account |-> g.nodes[i],
             anomaly_type |-> "hub",
             centrality_metrics |->
                [degree_centrality |-> [num |-> ds[i], den |-> DegreeDen(g)],
                 betweenness_centrality |-> betweenness_centrality(g, g.nodes[i]),
                 pagerank |-> ranks[i]],
             threshold |->
                Max2((degree_threshold * Scale) \div Tenth,
                     (total * Scale + 2 * ISqrt(var * Scale * Scale))
                         \div (n * DegreeDen(g))),
             risk_score |-> calculate_hub_risk_score(
                                n * ds[i] - total, var,
                                betweenness_centrality(g, g.nodes[i]), ranks[i]),
             detection_type |-> "network_anomaly"]
        RECURSIVE HubLoop(_)
        HubLoop(i) == IF i > n THEN <<>>
                      ELSE (IF isHub(i) THEN <<hub(i)>> ELSE <<>>) \o HubLoop(i + 1)
    IN  HubLoop(1)

\* Community service (utils.detect_communities): the partitions of S.
RECURSIVE Partitions(_)
Partitions(S) ==
    IF S = {} THEN {{}}
    ELSE LET x == CHOOSE y \in S : TRUE
             smaller == Partitions(S \ {x})
         IN  {P \cup {{x}} : P \in smaller}
             \cup UNION {{(P \ {B}) \cup {B \cup {x}} : B \in P} : P \in smaller}

\* The lists detect_communities may return: the blocks of a partition of
\* the nodes, in any order.
detect_communities(g) ==
    UNION {{c \in DistinctSeqs(P, Cardinality(P)) : Len(c) = Cardinality(P)} :
              P \in Partitions(Range(g.nodes))}

\* _calculate_community_risk_score
calculate_community_risk_score(internal, total, size) ==
    LET ratio_score == (internal * Scale) \div total
        size_score == Min2((size * Scale) \div 20, Scale)
    IN  Min2(60 * ratio_score + 40 * size_score, ScoreOne)

\* _detect_isolated_communities without the test of the internal ratio.
RECURSIVE detect_isolated_communities_any_ratio(_, _, _, _)
detect_isolated_communities_any_ratio(store, communities, from, isolation_threshold) ==
    IF from > Len(communities) THEN <<>>
    ELSE LET community == communities[from]
             isInternal(tx) == tx.sender_id \in community /\ tx.receiver_id \in community
             isTouching(tx) == tx.sender_id \in community \/ tx.receiver_id \in community
             internal_txs == Len(SelectSeq(store, isInternal))
             total_txs == Len(SelectSeq(store, isTouching))
             rest == detect_isolated_communities_any_ratio(store, communities, from + 1,
                                                           isolation_threshold)
         IN  IF Cardinality(community) < 3 \/ total_txs = 0 THEN rest
             ELSE <<[community |-> community,
                     anomaly_type |-> "isolated_community",
                     internal_transactions |-> internal_txs,
                     external_transactions |-> total_txs - internal_txs,
                     internal_ratio |-> [num |-> internal_txs, den |-> total_txs],
                     risk_score |-> 0,
                     detection_type |-> "network_anomaly"]>> \o rest

\* _detect_isolated_communities over communities[from..]; the community
\* field holds the accounts as a set.
RECURSIVE detect_isolated_communities(_, _, _, _)
detect_isolated_communities(store, communities, from, isolation_threshold) ==
    IF from > Len(communities) THEN <<>>
    ELSE LET community == communities[from]
             isInternal(tx) == tx.sender_id \in community /\ tx.receiver_id \in community
             isExternal(tx) == /\ ~isInternal(tx)
                               /\ (tx.sender_id \in community \/ tx.receiver_id \in community)
             internal_txs == Len(SelectSeq(store, isInternal))
             external_txs == Len(SelectSeq(store, isExternal))
             total_txs == internal_txs + external_txs
             rest == detect_isolated_communities(store, communities, from + 1,
                                                 isolation_threshold)
         IN  IF Cardinality(community) < 3 \/ total_txs = 0 THEN rest
             ELSE IF Tenth * internal_txs >= isolation_threshold * total_txs
                  THEN <<[community |-> community,
                          anomaly_type |-> "isolated_community",
                          internal_transactions |-> internal_txs,
                          external_transactions |-> external_txs,
                          internal_ratio |-> [num |-> internal_txs, den |-> total_txs],
                          risk_score |-> calculate_community_risk_score(
                                             internal_txs, total_txs,
                                             Cardinality(community)),
                          detection_type |-> "network_anomaly"]>> \o rest
                  ELSE rest

\* The values detect_network_anomalies(**args) works with.
AnomalyDegreeThreshold(args) ==
    OrDefault(args, "degree_threshold", detection_params["anomaly_degree_threshold"])
AnomalyBurstThreshold(args) ==
    OrDefault(args, "burst_threshold", detection_params["anomaly_burst_threshold"])
AnomalyBurstWindow(args) ==
    OrDefault(args, "burst_window_hours", detection_params["anomaly_burst_window_hours"])
AnomalyIsolationThreshold(args) ==
    OrDefault(args, "isolation_threshold",
              detection_params["anomaly_isolation_threshold"])

\* detect_network_anomalies extending the list with the community findings
\* first and with the hub findings last.
detect_network_anomalies_result_hubs_last(args, communities) ==
    IF graph = None THEN [raised |-> "GraphNotBuilt", returned |-> <<>>]
    ELSE [raised |-> "",
          returned |-> SortByRiskDesc(
              detect_isolated_communities(transactions, communities, 1,
                                          AnomalyIsolationThreshold(args))
              \o detect_burst_anomalies(transactions, AnomalyBurstThreshold(args),
                                        AnomalyBurstWindow(args))
              \o detect_hub_anomalies(graph, AnomalyDegreeThreshold(args)))]

\* detect_network_anomalies(**args), with communities the list that
\* detect_communities returns: the exception raised and the list returned.
detect_network_anomalies_result(args, communities) ==
    IF graph = None THEN [raised |-> "GraphNotBuilt", returned |-> <<>>]
    ELSE [raised |-> "",
          returned |-> SortByRiskDesc(
              detect_hub_anomalies(graph, AnomalyDegreeThreshold(args))
              \o detect_burst_anomalies(transactions, AnomalyBurstThreshold(args),
                                        AnomalyBurstWindow(args))
              \o detect_isolated_communities(transactions, communities, 1,
                                             AnomalyIsolationThreshold(args)))]

\* ---------------------------------------------------------------- handlers
\*
\* Each public method is an operator on the coordinator's current state
\* that gives what the call leaves behind: the exception it raised ("" when
\* it returned), the value it returned, and the four attributes.

State(exception, value, txs, g, params, results) ==
    [raised |-> exception, returned |-> value, transactions |-> txs,
     graph |-> g, detection_params |-> params, detection_results |-> results]

\* load_transactions(txs) forgetting the results of the previous store.
load_transactions_call_resetting(txs) ==
    State(IF validate_transactions(txs) THEN "" ELSE "InvalidData", None,
          txs, graph, detection_params, EmptyResults)

\* load_transactions(txs): the store is assigned, then validated.
load_transactions_call(txs) ==
    State(IF validate_transactions(txs) THEN "" ELSE "InvalidData", None,
          txs, graph, detection_params, detection_results)

\* build_graph(**f): the graph is assigned when build_transaction_graph
\* returns.
build_graph_call(f) ==
    IF InvalidFilter(f)
    THEN State("InvalidFilter", None,
               transactions, graph, detection_params, detection_results)
    ELSE LET g == build_transaction_graph(transactions, f)
         IN  State("", g, transactions, g, detection_params, detection_results)

\* set_detection_params(**kw)
set_detection_params_call(kw) ==
    LET r == SetParamsLoop(detection_params, kw, 1)
    IN  State(r.raised, None, transactions, graph, r.params, detection_results)

\* get_detection_params(): a copy of the parameters.
get_detection_params_call ==
    State("", detection_params,
          transactions, graph, detection_params, detection_results)

\* A detector that sorts the store itself instead of a list of its own.
DetectorStateSortingStore(family, r) ==
    State(r.raised, r.returned,
          IF r.raised = "" THEN SortByTimestamp(transactions) ELSE transactions,
          graph, detection_params,
          IF r.raised = "" THEN [detection_results EXCEPT ![family] = r.returned]
          ELSE detection_results)

\* What a detector leaves behind, r being its outcome: the list is stored
\* under its family and returned; the store, the graph and the parameters
\* are only read (the lists the detectors sort are their own).
DetectorState(family, r) ==
    State(r.raised, r.returned, transactions, graph, detection_params,
          IF r.raised = "" THEN [detection_results EXCEPT ![family] = r.returned]
          ELSE detection_results)

detect_money_laundering_cycles_call(args, all_cycles) ==
    DetectorState("money_laundering_cycles",
                  detect_money_laundering_cycles_result(args, all_cycles))

detect_smurfing_call(args) ==
    DetectorState("smurfing_patterns", detect_smurfing_result(args))

detect_network_anomalies_call(args, communities) ==
    DetectorState("network_anomalies",
                  detect_network_anomalies_result(args, communities))

\* detect_all() adding its findings to the stored ones.
detect_all_call_appending(all_cycles, communities) ==
    LET none == <<>>
        cycles == detect_money_laundering_cycles_result(none, all_cycles)
        smurfing == detect_smurfing_result(none)
        anomalies == detect_network_anomalies_result(none, communities)
        high(s) == LET risky(x) == 10 * x.risk_score > 7 * ScoreOne
                   IN  Len(SelectSeq(s, risky))
        lists == [money_laundering_cycles |->
                      detection_results["money_laundering_cycles"] \o cycles.returned,
                  smurfing_patterns |->
                      detection_results["smurfing_patterns"] \o smurfing.returned,
                  network_anomalies |->
                      detection_results["network_anomalies"] \o anomalies.returned]
    IN  IF cycles.raised # ""
        THEN State(cycles.raised, None,
                   transactions, graph, detection_params, detection_results)
        ELSE State("",
                   [money_laundering_cycles |-> lists.money_laundering_cycles,
                    smurfing_patterns |-> lists.smurfing_patterns,
                    network_anomalies |-> lists.network_anomalies,
                    summary |->
                       [total_cycles |-> Len(lists.money_laundering_cycles),
                        total_smurfing |-> Len(lists.smurfing_patterns),
                        total_anomalies |-> Len(lists.network_anomalies),
                        high_risk_cycles |-> high(lists.money_laundering_cycles),
                        high_risk_smurfing |-> high(lists.smurfing_patterns),
                        high_risk_anomalies |-> high(lists.network_anomalies)]],
                   transactions, graph, detection_params, lists)

\* detect_all() counting as high risk the scores above 0.5.
detect_all_call_half(all_cycles, communities) ==
    LET none == <<>>
        cycles == detect_money_laundering_cycles_result(none, all_cycles)
        smurfing == detect_smurfing_result(none)
        anomalies == detect_network_anomalies_result(none, communities)
        high(s) == LET risky(x) == 10 * x.risk_score > 5 * ScoreOne
                   IN  Len(SelectSeq(s, risky))
        lists == [money_laundering_cycles |-> cycles.returned,
                  smurfing_patterns |-> smurfing.returned,
                  network_anomalies |-> anomalies.returned]
    IN  IF cycles.raised # ""
        THEN State(cycles.raised, None,
                   transactions, graph, detection_params, detection_results)
        ELSE State("",
                   [money_laundering_cycles |-> cycles.returned,
                    smurfing_patterns |-> smurfing.returned,
                    network_anomalies |-> anomalies.returned,
                    summary |->
                       [total_cycles |-> Len(cycles.returned),
                        total_smurfing |-> Len(smurfing.returned),
                        total_anomalies |-> Len(anomalies.returned),
                        high_risk_cycles |-> high(cycles.returned),
                        high_risk_smurfing |-> high(smurfing.returned),
                        high_risk_anomalies |-> high(anomalies.returned)]],
                   transactions, graph, detection_params, lists)

\* detect_all(): the three detectors in turn with no override, then the
\* summary.  The first detector raises when the graph is not built.
detect_all_call(all_cycles, communities) ==
    LET none == <<>>
        cycles == detect_money_laundering_cycles_result(none, all_cycles)
        smurfing == detect_smurfing_result(none)
        anomalies == detect_network_anomalies_result(none, communities)
        high(s) == LET risky(x) == 10 * x.risk_score > 7 * ScoreOne
                   IN  Len(SelectSeq(s, risky))
    IN  IF cycles.raised # ""
        THEN State(cycles.raised, None,
                   transactions, graph, detection_params, detection_results)
        ELSE State("",
                   [money_laundering_cycles |-> cycles.returned,
                    smurfing_patterns |-> smurfing.returned,
                    network_anomalies |-> anomalies.returned,
                    summary |->
                       [total_cycles |-> Len(cycles.returned),
                        total_smurfing |-> Len(smurfing.returned),
                        total_anomalies |-> Len(anomalies.returned),
                        high_risk_cycles |-> high(cycles.returned),
                        high_risk_smurfing |-> high(smurfing.returned),
                        high_risk_anomalies |-> high(anomalies.returned)]],
                   transactions, graph, detection_params,
                   [money_laundering_cycles |-> cycles.returned,
                    smurfing_patterns |-> smurfing.returned,
                    network_anomalies |-> anomalies.returned])

\* ------------------------------------------------------------------- inputs

\* The optional arguments of one detector call: at most MaxOverrides of
\* names are passed, each with a value in 0..MaxValue.
OverrideArgs(names) ==
    UNION {[S -> 0..MaxValue] :
              S \in {T \in SUBSET names : Cardinality(T) <= MaxOverrides}}

CycleArgs == OverrideArgs({"min_length", "max_length", "time_window_hours"})
SmurfingArgs ==
    OverrideArgs({"threshold", "min_transactions", "time_window_hours", "amount_ratio"})
AnomalyArgs ==
    OverrideArgs({"degree_threshold", "burst_threshold", "burst_window_hours",
                  "isolation_threshold"})

\* What find_cycles_in_graph may return to a call with args (nothing is
\* enumerated when the graph is not built).
CycleLists(args) ==
    IF graph = None THEN {<<>>}
    ELSE find_cycles_in_graph(graph, CycleMinLength(args))

\* What detect_communities may return.
CommunityLists == IF graph = None THEN {<<>>} ELSE detect_communities(graph)

\* ------------------------------------------------------------------ actions

Init ==
    /\ transactions = <<>>
    /\ graph = None
    /\ detection_params = DefaultParams
    /\ detection_results = EmptyResults
    /\ op = ""
    /\ raised = ""
    /\ returned = None
    /\ filters = <<>>
    /\ calls = 0

\* The coordinator after a call of method that left s.
Leaves(method, s) ==
    /\ transactions' = s.transactions
    /\ graph' = s.graph
    /\ detection_params' = s.detection_params
    /\ detection_results' = s.detection_results
    /\ op' = method
    /\ raised' = s.raised
    /\ returned' = s.returned
    /\ calls' = calls + 1

\* The same for a method other than build_graph: the graph is the one the
\* last build_graph built.
Becomes(method, s) == Leaves(method, s) /\ UNCHANGED filters

load_transactions ==
    /\ calls < MaxCalls
    /\ \E txs \in Corpora :
           \E s \in {load_transactions_call(txs)} : Becomes("load_transactions", s)

build_graph ==
    /\ calls < MaxCalls
    /\ \E f \in FilterArgs :
           \E s \in {build_graph_call(f)} :
               /\ Leaves("build_graph", s)
               /\ filters' = IF s.raised = "" THEN f ELSE filters

set_detection_params ==
    /\ calls < MaxCalls
    /\ \E kw \in KwargLists :
           \E s \in {set_detection_params_call(kw)} :
               Becomes("set_detection_params", s)

get_detection_params ==
    /\ calls < MaxCalls
    /\ \E s \in {get_detection_params_call} : Becomes("get_detection_params", s)

detect_money_laundering_cycles ==
    /\ calls < MaxCalls
    /\ \E args \in CycleArgs : \E all_cycles \in CycleLists(args) :
           \E s \in {detect_money_laundering_cycles_call(args, all_cycles)} :
               Becomes("detect_money_laundering_cycles", s)

detect_smurfing ==
    /\ calls < MaxCalls
    /\ \E args \in SmurfingArgs :
           \E s \in {detect_smurfing_call(args)} : Becomes("detect_smurfing", s)

detect_network_anomalies ==
    /\ calls < MaxCalls
    /\ \E args \in AnomalyArgs : \E communities \in CommunityLists :
           \E s \in {detect_network_anomalies_call(args, communities)} :
               Becomes("detect_network_anomalies", s)

detect_all ==
    /\ calls < MaxCalls
    /\ \E all_cycles \in CycleLists(<<>>) : \E communities \in CommunityLists :
           \E s \in {detect_all_call(all_cycles, communities)} :
               Becomes("detect_all", s)

Next ==
    \/ load_transactions
    \/ build_graph
    \/ set_detection_params
    \/ get_detection_params
    \/ detect_money_laundering_cycles
    \/ detect_smurfing
    \/ detect_network_anomalies
    \/ detect_all

Spec == Init /\ [][Next]_vars

\* A coordinator on which load_transactions, then set_detection_params or
\* nothing, then build_graph() were called: one detector call is left.
LoadedInit ==
    /\ transactions \in {txs \in WideCorpora : validate_transactions(txs)}
    /\ detection_params \in
           {DefaultParams} \cup
           {SetParamsLoop(DefaultParams, kw, 1).params :
               kw \in {l \in KwargLists :
                          SetParamsLoop(DefaultParams, l, 1).raised = ""}}
    /\ graph = build_transaction_graph(transactions, <<>>)
    /\ detection_results = EmptyResults
    /\ op = "build_graph"
    /\ raised = ""
    /\ returned = graph
    /\ filters = <<>>
    /\ calls = MaxCalls - 1

LoadedNext ==
    \/ detect_money_laundering_cycles
    \/ detect_smurfing
    \/ detect_network_anomalies
    \/ detect_all

LoadedSpec == LoadedInit /\ [][LoadedNext]_vars

\* The values of anomaly_degree_threshold set before the hub detection, in
\* tenths: the default 0.1, and 0.5 and 0.6, which some degrees reach.
HubThresholds == {DefaultParams["anomaly_degree_threshold"], 5, 6}

\* A coordinator on which load_transactions, then
\* set_detection_params(anomaly_degree_threshold=...) or nothing, then
\* build_graph() were called, the store being transactions around H.
HubInit ==
    /\ transactions \in StarCorpora
    /\ detection_params \in
           {[DefaultParams EXCEPT !["anomaly_degree_threshold"] = t] : t \in HubThresholds}
    /\ graph = build_transaction_graph(transactions, <<>>)
    /\ detection_results = EmptyResults
    /\ op = "build_graph"
    /\ raised = ""
    /\ returned = graph
    /\ filters = <<>>
    /\ calls = MaxCalls - 1

\* The overrides of detect_network_anomalies that bear on hubs.
DegreeArgs == OverrideArgs({"degree_threshold"})

\* The first step of detect_network_anomalies(**args): the call of
\* _detect_hub_anomalies, which returns its findings and assigns nothing.
detect_hub_anomalies_step ==
    /\ calls < MaxCalls
    /\ graph # None
    /\ \E args \in DegreeArgs :
           /\ returned' = detect_hub_anomalies(graph, AnomalyDegreeThreshold(args))
           /\ op' = "_detect_hub_anomalies"
           /\ raised' = ""
           /\ calls' = calls + 1
           /\ UNCHANGED <<transactions, graph, detection_params, detection_results,
                          filters>>

HubSpec == HubInit /\ [][detect_hub_anomalies_step]_vars

\* **kwargs of the set_detection_params calls made before the findings are
\* compared: the burst threshold and the isolation threshold (in tenths).
TieKwargs ==
    {<<<<"anomaly_burst_threshold", b>>, <<"anomaly_isolation_threshold", t>>>> :
        b \in 1..MaxValue, t \in {2, 4}}

\* A coordinator on which load_transactions, then set_detection_params of
\* the two anomaly thresholds or nothing, then build_graph() were called,
\* the store being one whose findings tie on a risk score.
TiedInit ==
    /\ transactions \in TieCorpora
    /\ detection_params \in
           {DefaultParams} \cup {SetParamsLoop(DefaultParams, kw, 1).params : kw \in TieKwargs}
    /\ graph = build_transaction_graph(transactions, <<>>)
    /\ detection_results = EmptyResults
    /\ op = "build_graph"
    /\ raised = ""
    /\ returned = graph
    /\ filters = <<>>
    /\ calls = MaxCalls - 1

TiedNext ==
    \/ detect_money_laundering_cycles
    \/ detect_network_anomalies

TiedSpec == TiedInit /\ [][TiedNext]_vars

\* --------------------------------------------------------------- properties
\*
\* Unless they are action properties, the properties are stated on what a
\* method leaves behind when it is called in the current state, over every
\* input of the call.

\* The call s raised GraphNotBuilt and changed nothing.
FailsUnbuilt(s) ==
    /\ s.raised = "GraphNotBuilt"
    /\ s.transactions = transactions
    /\ s.detection_params = detection_params
    /\ s.detection_results = detection_results

\* C1: while the graph is None, each of detect_money_laundering_cycles,
\* detect_smurfing, detect_network_anomalies and detect_all raises
\* GraphNotBuilt and leaves transactions, detection_params and the three
\* result lists as they were before the call.
C1_GraphNotBuilt ==
    graph = None =>
        /\ \A args \in CycleArgs : \A all_cycles \in CycleLists(args) :
               FailsUnbuilt(detect_money_laundering_cycles_call(args, all_cycles))
        /\ \A args \in SmurfingArgs : FailsUnbuilt(detect_smurfing_call(args))
        /\ \A args \in AnomalyArgs : \A communities \in CommunityLists :
               FailsUnbuilt(detect_network_anomalies_call(args, communities))
        /\ \A all_cycles \in CycleLists(<<>>) : \A communities \in CommunityLists :
               FailsUnbuilt(detect_all_call(all_cycles, communities))

\* The four detector methods.
Detectors == {"detect_money_laundering_cycles", "detect_smurfing",
              "detect_network_anomalies", "detect_all"}

\* detect_all has just failed on a coordinator that holds transactions but
\* no graph.
C1_Witness ==
    /\ graph = None
    /\ op = "detect_all"
    /\ raised = "GraphNotBuilt"
    /\ transactions # <<>>

\* C2: a set_detection_params call that names at least one key outside the
\* enumerated parameters raises UnknownParameter and leaves detection_params
\* equal to what it was before the call, whatever the keys and their order.
C2_NoPartialEffect ==
    \A kw \in KwargLists :
        (\E i \in DOMAIN kw : kw[i][1] \notin ParamKeys) =>
            /\ set_detection_params_call(kw).raised = "UnknownParameter"
            /\ set_detection_params_call(kw).detection_params = detection_params

\* C3: after any sequence of calls the keys of detection_params are exactly
\* the 11 enumerated parameters, no set_detection_params call adds or removes
\* one, and a coordinator on which no call was made holds the defaults
\* 3, 10, 72, 10000, 5, 48, 0.8, 0.1, 20, 2, 0.7.
C3_ParamKeys ==
    /\ DOMAIN detection_params = ParamKeys
    /\ Cardinality(ParamKeys) = 11
    /\ \A kw \in KwargLists :
           DOMAIN set_detection_params_call(kw).detection_params = ParamKeys
    /\ calls = 0 =>
           /\ detection_params["cycle_min_length"] = 3
           /\ detection_params["cycle_max_length"] = 10
           /\ detection_params["cycle_time_window_hours"] = 72
           /\ detection_params["smurfing_threshold"] = 10000
           /\ detection_params["smurfing_min_transactions"] = 5
           /\ detection_params["smurfing_time_window_hours"] = 48
           /\ detection_params["smurfing_amount_ratio"] * 10 = 8 * Tenth
           /\ detection_params["anomaly_degree_threshold"] * 10 = 1 * Tenth
           /\ detection_params["anomaly_burst_threshold"] = 20
           /\ detection_params["anomaly_burst_window_hours"] = 2
           /\ detection_params["anomaly_isolation_threshold"] * 10 = 7 * Tenth

\* set_detection_params has changed a parameter and another call has failed
\* on an unknown key.
C3_Witness ==
    /\ raised = "UnknownParameter"
    /\ detection_params # DefaultParams
    /\ transactions # <<>>

\* C4: every detector call, with or without overrides, leaves the
\* transaction list (same elements, same order), the graph and
\* detection_params as they were, so that an override is not in effect for
\* the next call.
C4_InputsUnchanged ==
    [][op' \in Detectors =>
           UNCHANGED <<transactions, graph, detection_params>>]_vars

\* detect_money_laundering_cycles, called with the override min_length = 2
\* on a store that is not sorted by timestamp, has stored a cycle of 2
\* accounts, and the configured cycle_min_length is still 3.
C4_Witness ==
    /\ op = "detect_money_laundering_cycles"
    /\ \E k \in DOMAIN detection_results["money_laundering_cycles"] :
           detection_results["money_laundering_cycles"][k].length
               < detection_params["cycle_min_length"]
    /\ \E i \in DOMAIN transactions : \E j \in DOMAIN transactions :
           i < j /\ transactions[i].timestamp > transactions[j].timestamp

\* The value of a parameter in effect for a call: the override when the
\* call passes one, otherwise the configured value.
Effective(args, name, key) ==
    IF name \in DOMAIN args THEN args[name] ELSE detection_params[key]

\* C5: every finding returned by detect_smurfing (here on a store of valid
\* transactions) has num_transactions >= the effective
\* smurfing_min_transactions of the call (the min_transactions override when
\* one is passed, otherwise the configured value), for every override and
\* every configuration.
C5_MinTransactions ==
    validate_transactions(transactions) =>
        \A args \in SmurfingArgs :
            \A k \in DOMAIN detect_smurfing_result(args).returned :
                detect_smurfing_result(args).returned[k].num_transactions
                    >= Effective(args, "min_transactions",
                                 "smurfing_min_transactions")

\* The latest timestamp of txs minus the earliest one, in hours.
TimeSpan(txs) ==
    SetMax({txs[i].timestamp : i \in DOMAIN txs})
        - SetMin({txs[i].timestamp : i \in DOMAIN txs})

\* The finding F is realized edge by edge.
CycleRealized(F) ==
    /\ Len(F.transactions) = F.length
    /\ F.length = Len(F.cycle)
    /\ Len(F.amounts) = F.length
    /\ \A i \in 1..F.length :
           /\ F.transactions[i].sender_id = F.cycle[i]
           /\ F.transactions[i].receiver_id = F.cycle[(i % F.length) + 1]
           /\ F.transactions[i].amount = F.amounts[i]
    /\ F.total_amount = SumSeq(AmountsOf(F.transactions))

\* C6: every finding F returned by detect_money_laundering_cycles has
\* len(F.transactions) = F.length = len(F.cycle) = len(F.amounts), its i-th
\* transaction goes from F.cycle[i] to the next account of the cycle with
\* the amount F.amounts[i], and F.total_amount is the sum of these amounts.
C6_CycleRealized ==
    \A args \in CycleArgs : \A all_cycles \in CycleLists(args) :
        \A k \in DOMAIN detect_money_laundering_cycles_result(args, all_cycles).returned :
            CycleRealized(
                detect_money_laundering_cycles_result(args, all_cycles).returned[k])

\* detect_money_laundering_cycles has stored a finding for a cycle of 3
\* accounts.
C6_Witness ==
    /\ op = "detect_money_laundering_cycles"
    /\ \E k \in DOMAIN detection_results["money_laundering_cycles"] :
           detection_results["money_laundering_cycles"][k].length = 3

\* The finding F respects the parameters in effect for a call with args.
CycleWithinParams(F, args) ==
    /\ F.time_span_hours = TimeSpan(F.transactions)
    /\ F.time_span_hours
           <= Effective(args, "time_window_hours", "cycle_time_window_hours")
    /\ Effective(args, "min_length", "cycle_min_length") <= F.length
    /\ F.length <= Effective(args, "max_length", "cycle_max_length")

\* C7: every finding F returned by detect_money_laundering_cycles (here on a
\* store of valid transactions) has F.time_span_hours, the latest minus the
\* earliest timestamp of its transactions, <= the effective
\* cycle_time_window_hours and F.length between the effective
\* cycle_min_length and cycle_max_length of the call (each override when
\* one is passed, otherwise the configured value), for every override value.
C7_CycleWithinParams ==
    validate_transactions(transactions) =>
        \A args \in CycleArgs : \A all_cycles \in CycleLists(args) :
            \A k \in DOMAIN detect_money_laundering_cycles_result(args, all_cycles).returned :
                CycleWithinParams(
                    detect_money_laundering_cycles_result(args, all_cycles).returned[k],
                    args)

\* The transactions of the store on the edge from -> to.
OnEdge(from, to) ==
    {transactions[i] : i \in {j \in DOMAIN transactions :
                                 /\ transactions[j].sender_id = from
                                 /\ transactions[j].receiver_id = to}}

\* Some choice of one stored transaction per edge of cycle spans at most
\* window hours.
SomeChoiceWithin(cycle, window) ==
    \E choice \in [DOMAIN cycle -> Range(transactions)] :
        /\ \A i \in DOMAIN cycle :
               choice[i] \in OnEdge(cycle[i], cycle[(i % Len(cycle)) + 1])
        /\ TimeSpan(choice) <= window

\* The most recent stored transaction of each edge of cycle exists, and
\* together they span at most window hours.
MostRecentWithin(cycle, window) ==
    /\ \A i \in DOMAIN cycle : OnEdge(cycle[i], cycle[(i % Len(cycle)) + 1]) # {}
    /\ LET latest(i) ==
               SetMax({tx.timestamp :
                          tx \in OnEdge(cycle[i], cycle[(i % Len(cycle)) + 1])})
           times == {latest(i) : i \in DOMAIN cycle}
       IN  SetMax(times) - SetMin(times) <= window

\* The cycles of the graph whose length is within the bounds a call with
\* args works with.
CandidateCycles(args) ==
    IF graph = None THEN {}
    ELSE {c \in SimpleCycles(graph) :
             /\ CycleMinLength(args) <= Len(c)
             /\ Len(c) <= CycleMaxLength(args)}

\* C8 as stated: for every simple cycle of the graph whose length lies in
\* [cycle_min_length, cycle_max_length], if some choice of one transaction
\* per cycle edge spans at most cycle_time_window_hours, then
\* detect_money_laundering_cycles returns a finding for that cycle.
C8_AnyChoiceComplete ==
    \A args \in CycleArgs : \A all_cycles \in CycleLists(args) :
        \A c \in CandidateCycles(args) :
            SomeChoiceWithin(c, CycleTimeWindow(args)) =>
                \E k \in DOMAIN detect_money_laundering_cycles_result(args, all_cycles).returned :
                    detect_money_laundering_cycles_result(args, all_cycles).returned[k].cycle = c

\* C8: for every simple cycle of the graph whose length lies in
\* [cycle_min_length, cycle_max_length], if every edge of the cycle has a
\* transaction in the store and the most recent transactions of the edges
\* span at most cycle_time_window_hours, then
\* detect_money_laundering_cycles returns a finding for that cycle (the
\* three parameters are the values the call works with).
C8_MostRecentComplete ==
    \A args \in CycleArgs : \A all_cycles \in CycleLists(args) :
        \A c \in CandidateCycles(args) :
            MostRecentWithin(c, CycleTimeWindow(args)) =>
                \E k \in DOMAIN detect_money_laundering_cycles_result(args, all_cycles).returned :
                    detect_money_laundering_cycles_result(args, all_cycles).returned[k].cycle = c

\* detect_money_laundering_cycles has stored a finding for a cycle one edge
\* of which has two transactions in the store.
C8_Witness ==
    /\ op = "detect_money_laundering_cycles"
    /\ \E k \in DOMAIN detection_results["money_laundering_cycles"] :
           LET c == detection_results["money_laundering_cycles"][k].cycle
           IN  \E i \in DOMAIN c :
                   Cardinality(OnEdge(c[i], c[(i % Len(c)) + 1])) > 1

\* The smurfing finding F respects the parameters in effect for a call with
\* args.
SmurfingFindingShape(F, args) ==
    /\ \A i \in DOMAIN F.transactions :
           /\ F.transactions[i].receiver_id = F.pivot_account
           /\ F.transactions[i].amount
                  < Effective(args, "threshold", "smurfing_threshold")
           /\ F.transactions[i].timestamp
                  - SetMin({F.transactions[j].timestamp : j \in DOMAIN F.transactions})
                  <= Effective(args, "time_window_hours",
                               "smurfing_time_window_hours")
    /\ F.coefficient_of_variation = CvFixed(AmountsOf(F.transactions))
    /\ CvAtMost(AmountsOf(F.transactions),
                Effective(args, "amount_ratio", "smurfing_amount_ratio"))
    /\ F.num_transactions = Len(F.transactions)

\* C9: every finding F returned by detect_smurfing (here on a store of valid
\* transactions) satisfies, under the effective parameters of the call:
\* every transaction of F has receiver_id = F.pivot_account and amount <
\* smurfing_threshold and a timestamp at most smurfing_time_window_hours
\* after the earliest one of F; F.coefficient_of_variation is the standard
\* deviation over the mean of the amounts and is <= 1 -
\* smurfing_amount_ratio; F.num_transactions = len(F.transactions); and no
\* two findings of the list have the same pivot account.
C9_SmurfingFindingShape ==
    validate_transactions(transactions) =>
        \A args \in SmurfingArgs :
            /\ \A k \in DOMAIN detect_smurfing_result(args).returned :
                   SmurfingFindingShape(detect_smurfing_result(args).returned[k], args)
            /\ \A k \in DOMAIN detect_smurfing_result(args).returned :
                   \A l \in DOMAIN detect_smurfing_result(args).returned :
                       detect_smurfing_result(args).returned[k].pivot_account
                           = detect_smurfing_result(args).returned[l].pivot_account
                       => k = l

\* The burst finding F respects the parameters in effect for a call with
\* args.
BurstFindingShape(F, args) ==
    /\ \A i \in DOMAIN F.transactions :
           /\ F.transactions[i].sender_id = F.account
           /\ F.transactions[i].timestamp
                  - SetMin({F.transactions[j].timestamp : j \in DOMAIN F.transactions})
                  <= Effective(args, "burst_window_hours",
                               "anomaly_burst_window_hours")
    /\ F.num_transactions = Len(F.transactions)
    /\ F.num_transactions
           >= Effective(args, "burst_threshold", "anomaly_burst_threshold")
    /\ Cardinality({i \in DOMAIN transactions :
                       transactions[i].sender_id = F.account})
           >= Effective(args, "burst_threshold", "anomaly_burst_threshold")

\* C10: every burst finding F returned by detect_network_anomalies (here on
\* a store of valid transactions) satisfies, under the effective parameters
\* of the call: every transaction of F has sender_id = F.account and a
\* timestamp within anomaly_burst_window_hours of the earliest one of F;
\* F.num_transactions = len(F.transactions) >= anomaly_burst_threshold; and
\* the sender has at least anomaly_burst_threshold outgoing transactions.
C10_BurstFindingShape ==
    validate_transactions(transactions) =>
        \A args \in AnomalyArgs : \A communities \in CommunityLists :
            \A k \in DOMAIN detect_network_anomalies_result(args, communities).returned :
                detect_network_anomalies_result(args, communities).returned[k].anomaly_type
                    = "burst"
                => BurstFindingShape(
                       detect_network_anomalies_result(args, communities).returned[k],
                       args)

\* The number of elements of the list s that satisfy Test.
Count(s, Test(_)) == Len(SelectSeq(s, Test))

\* The isolated-community finding F is one the threshold allows: at least 3
\* accounts, a ratio of the internal transactions of the store to those
\* that touch the community, and that ratio at least threshold tenths.
IsolatedFindingShape(F, threshold) ==
    LET inside(tx) == tx.sender_id \in F.community /\ tx.receiver_id \in F.community
        oneEnd(tx) == (tx.sender_id \in F.community) # (tx.receiver_id \in F.community)
        internal == Count(transactions, inside)
        external == Count(transactions, oneEnd)
    IN  /\ Cardinality(F.community) >= 3
        /\ internal + external > 0
        /\ F.internal_ratio = [num |-> internal, den |-> internal + external]
        /\ Tenth * internal >= threshold * (internal + external)

ReturnedLists ==
    IF op = "detect_all"
    THEN {returned.money_laundering_cycles, returned.smurfing_patterns,
          returned.network_anomalies}
    ELSE {returned}

FromFilteredSet(F) ==
    \A i \in DOMAIN F.transactions : PassesFilters(F.transactions[i], filters)

\* The internal and external counts of the isolated-community finding F are
\* counts of transactions that pass these filters.
CountsFiltered(F) ==
    LET passes(tx) == PassesFilters(tx, filters)
        kept == SelectSeq(transactions, passes)
        inside(tx) == tx.sender_id \in F.community /\ tx.receiver_id \in F.community
        oneEnd(tx) == (tx.sender_id \in F.community) # (tx.receiver_id \in F.community)
    IN  /\ F.internal_transactions = Count(kept, inside)
        /\ F.external_transactions = Count(kept, oneEnd)

\* The overrides of detect_network_anomalies that bear on bursts.
BurstArgs == OverrideArgs({"burst_threshold", "burst_window_hours"})

\* C13: every transaction a finding refers to (the representatives of a
\* cycle, the window of a smurfing or burst finding, the transactions
\* counted as internal or external to a community) satisfies the
\* min_amount, max_amount, date_start and date_end passed to the build_graph
\* call that built the graph, and every pivot or burst account reported is
\* a node of the graph.
C13_FromFilteredSet ==
    (graph # None /\ validate_transactions(transactions) /\ calls < MaxCalls) =>
        /\ \A args \in CycleArgs : \A all_cycles \in CycleLists(args) :
               LET r == detect_money_laundering_cycles_result(args, all_cycles)
               IN  r.raised = "" =>
                       \A k \in DOMAIN r.returned : FromFilteredSet(r.returned[k])
        /\ \A args \in SmurfingArgs :
               LET r == detect_smurfing_result(args)
               IN  r.raised = "" =>
                       \A k \in DOMAIN r.returned :
                           /\ FromFilteredSet(r.returned[k])
                           /\ r.returned[k].pivot_account \in Range(graph.nodes)
        /\ \A args \in BurstArgs : \A communities \in CommunityLists :
               LET r == detect_network_anomalies_result(args, communities)
               IN  r.raised = "" =>
                       \A k \in DOMAIN r.returned :
                           LET F == r.returned[k]
                           IN  /\ F.anomaly_type = "burst" =>
                                      /\ FromFilteredSet(F)
                                      /\ F.account \in Range(graph.nodes)
                               /\ F.anomaly_type = "isolated_community" =>
                                      CountsFiltered(F)

\* The number of findings of list with a risk_score above 0.7.
HighRisk(list) ==
    Cardinality({k \in DOMAIN list : 10 * list[k].risk_score > 7 * ScoreOne})

StoresOnly(family, s) ==
    s.raised = "" =>
        s.detection_results = [detection_results EXCEPT ![family] = s.returned]

\* No call of load_transactions, build_graph, set_detection_params or
\* get_detection_params made in the current state changes the stored
\* results, and a detector called without override changes only the list
\* of its family.
ResultsFrame ==
    /\ \A txs \in Corpora :
           load_transactions_call(txs).detection_results = detection_results
    /\ \A f \in FilterArgs : build_graph_call(f).detection_results = detection_results
    /\ \A kw \in KwargLists :
           set_detection_params_call(kw).detection_results = detection_results
    /\ get_detection_params_call.detection_results = detection_results
    /\ \A all_cycles \in CycleLists(<<>>) :
           StoresOnly("money_laundering_cycles",
                      detect_money_laundering_cycles_call(<<>>, all_cycles))
    /\ StoresOnly("smurfing_patterns", detect_smurfing_call(<<>>))
    /\ \A communities \in CommunityLists :
           StoresOnly("network_anomalies",
                      detect_network_anomalies_call(<<>>, communities))

\* The family of each detector method.
FamilyOf ==
    [detect_money_laundering_cycles |-> "money_laundering_cycles",
     detect_smurfing |-> "smurfing_patterns",
     detect_network_anomalies |-> "network_anomalies"]

\* C15: the stored results change only by a detector run replacing the
\* list of its own family: after a successful call of
\* detect_money_laundering_cycles, detect_smurfing or
\* detect_network_anomalies, with any overrides, the stored list of that
\* family is the list returned and the two other lists are unchanged; and
\* load_transactions, build_graph, set_detection_params and
\* get_detection_params never change detection_results.
C15_ResultsFrame ==
    /\ []ResultsFrame
    /\ [][/\ op' \in {"load_transactions", "build_graph", "set_detection_params",
                      "get_detection_params"} => UNCHANGED detection_results
          /\ (op' \in DOMAIN FamilyOf /\ raised' = "") =>
                 detection_results'
                     = [detection_results EXCEPT ![FamilyOf[op']] = returned']]_vars

\* detect_money_laundering_cycles has stored the cycle it returned; the
\* calls that may follow are those of ResultsFrame.
C15_Witness ==
    /\ op = "detect_money_laundering_cycles"
    /\ raised = ""
    /\ returned # <<>>
    /\ detection_results["money_laundering_cycles"] = returned

IdRank(id) == CHOOSE i \in DOMAIN TxIds : TxIds[i] = id

\* tx is the transaction of the store from sender to receiver with the
\* latest timestamp and, among those of that timestamp, the largest
\* transaction_id.
LatestLargestId(tx, sender, receiver) ==
    /\ \E i \in DOMAIN transactions : transactions[i] = tx
    /\ tx.sender_id = sender /\ tx.receiver_id = receiver
    /\ \A i \in DOMAIN transactions :
           (transactions[i].sender_id = sender /\ transactions[i].receiver_id = receiver) =>
               \/ transactions[i].timestamp < tx.timestamp
               \/ /\ transactions[i].timestamp = tx.timestamp
                  /\ IdRank(transactions[i].transaction_id) <= IdRank(tx.transaction_id)

\* C17: in every cycle finding, the representative transaction of each edge
\* is the transaction of that edge with the latest timestamp, and when
\* several have that timestamp, the one with the lexicographically largest
\* transaction_id, whatever the order of the store.
C17_RepresentativeTieBreak ==
    calls < MaxCalls =>
        \A args \in CycleArgs : \A all_cycles \in CycleLists(args) :
            LET r == detect_money_laundering_cycles_result(args, all_cycles)
            IN  r.raised = "" =>
                    \A k \in DOMAIN r.returned :
                        LET F == r.returned[k]
                        IN  \A i \in DOMAIN F.transactions :
                                LatestLargestId(F.transactions[i], F.cycle[i],
                                                F.cycle[(i % Len(F.cycle)) + 1])

\* The accepted windows of pivot for a detect_smurfing call with args, in
\* the order of their starts.
AcceptedWindows(pivot, args) ==
    LET incoming(tx) == tx.receiver_id = pivot /\ tx.amount < SmurfingThreshold(args)
    IN  SmurfingPatterns(SortByTimestamp(SelectSeq(transactions, incoming)), 1,
                         SmurfingTimeWindow(args), SmurfingAmountRatio(args))

\* The coefficient of variation of xs is below that of ys (both of a
\* positive sum).
CvBelow(xs, ys) ==
    VarNum(xs) * SumSeq(ys) * SumSeq(ys) * Len(ys) * Len(ys)
        < VarNum(ys) * SumSeq(xs) * SumSeq(xs) * Len(xs) * Len(xs)

\* Window b of windows is the one to report: none is longer, none of the
\* same length has a smaller coefficient of variation, and none of the
\* same length and coefficient starts earlier.
BestWindow(windows, b) ==
    \A j \in DOMAIN windows :
        LET same == Len(windows[j].transactions) = Len(windows[b].transactions)
        IN  /\ Len(windows[j].transactions) <= Len(windows[b].transactions)
            /\ same => ~CvBelow(windows[j].amounts, windows[b].amounts)
            /\ (same /\ ~CvBelow(windows[b].amounts, windows[j].amounts)) => b <= j

\* C18: the window a smurfing finding reports is, among the accepted
\* windows of its pivot, the one with the most transactions; when several
\* have that many, the one with the smallest coefficient of variation, and
\* then the one that starts first.
C18_BestWindow ==
    calls < MaxCalls =>
        \A args \in SmurfingArgs :
            LET r == detect_smurfing_result(args)
            IN  r.raised = "" =>
                    \A k \in DOMAIN r.returned :
                        LET F == r.returned[k]
                            windows == AcceptedWindows(F.pivot_account, args)
                        IN  \E b \in DOMAIN windows :
                                /\ windows[b].transactions = F.transactions
                                /\ BestWindow(windows, b)

\* The transactions sender sends, sorted by timestamp.
SentSorted(sender) ==
    LET sent(tx) == tx.sender_id = sender
    IN  SortByTimestamp(SelectSeq(transactions, sent))

\* The transactions of sorted with a timestamp in
\* [sorted[i].timestamp, sorted[i].timestamp + hours], in the order of sorted.
WindowAt(sorted, i, hours) ==
    LET within(tx) == /\ tx.timestamp >= sorted[i].timestamp
                      /\ tx.timestamp <= sorted[i].timestamp + hours
    IN  SelectSeq(sorted, within)

\* The burst findings of list for sender are as prescribed: none when no
\* window of sender has threshold transactions, otherwise one, for the
\* window of the smallest index that has.
FirstQualifying(list, sender, threshold, hours) ==
    LET sorted == SentSorted(sender)
        qualifying == {i \in DOMAIN sorted : Len(WindowAt(sorted, i, hours)) >= threshold}
        found == {k \in DOMAIN list :
                     list[k].anomaly_type = "burst" /\ list[k].account = sender}
    IN  IF qualifying = {} THEN found = {}
        ELSE /\ Cardinality(found) = 1
             /\ \A k \in found :
                    list[k].transactions = WindowAt(sorted, SetMin(qualifying), hours)

\* C19: detect_network_anomalies reports at most one burst per sender; a
\* sender is reported exactly when one of its windows, the transactions
\* with a timestamp in [tx[i].timestamp, tx[i].timestamp + burst window]
\* for an index i of its transactions sorted by timestamp, bounds
\* included, has at least burst-threshold transactions, and the finding is
\* the window of the smallest such i.  Window and threshold are the values
\* the call works with.
C19_FirstBurst ==
    calls < MaxCalls =>
        \A args \in BurstArgs : \A communities \in CommunityLists :
            LET r == detect_network_anomalies_result(args, communities)
            IN  r.raised = "" =>
                    \A sender \in {"A", "B", "C", "D"} :
                        FirstQualifying(r.returned, sender,
                                        AnomalyBurstThreshold(args),
                                        AnomalyBurstWindow(args))

\* A burst is stored for a sender whose earliest transaction is not in it:
\* the first window did not qualify.
C19_Witness ==
    /\ op = "detect_network_anomalies"
    /\ \E k \in DOMAIN detection_results["network_anomalies"] :
           LET F == detection_results["network_anomalies"][k]
           IN  /\ F.anomaly_type = "burst"
               /\ F.num_transactions = 2
               /\ \E i \in DOMAIN transactions :
                      /\ transactions[i].sender_id = F.account
                      /\ transactions[i].timestamp < F.transactions[1].timestamp

\* The degree centrality of the i-th node of the graph is above
\* max(threshold tenths, mean + 2 * stddev) of the degree centralities.
AboveTau(i, threshold) ==
    LET n == Len(graph.nodes)
        ds == DegreeSeq(graph)
        excess == n * ds[i] - SumSeq(ds)
    IN  /\ n > 1
        /\ Tenth * ds[i] > threshold * DegreeDen(graph)
        /\ excess > 0
        /\ excess * excess > 4 * VarNum(ds)

\* The list hubs has one hub finding, with the three centrality metrics of
\* the node, for each node above the threshold, and nothing else.
HubsExactly(hubs, threshold) ==
    /\ \A i \in DOMAIN graph.nodes :
           Cardinality({k \in DOMAIN hubs : hubs[k].account = graph.nodes[i]})
               = IF AboveTau(i, threshold) THEN 1 ELSE 0
    /\ \A k \in DOMAIN hubs :
           /\ hubs[k].anomaly_type = "hub"
           /\ \E i \in DOMAIN graph.nodes :
                  /\ hubs[k].account = graph.nodes[i]
                  /\ hubs[k].centrality_metrics =
                         [degree_centrality |->
                              [num |-> Degree(graph, graph.nodes[i]),
                               den |-> DegreeDen(graph)],
                          betweenness_centrality |->
                              betweenness_centrality(graph, graph.nodes[i]),
                          pagerank |-> pagerank(graph)[i]]
    /\ graph.nodes = <<>> => hubs = <<>>

\* C20: the hub detection flags exactly the nodes whose degree_centrality
\* is strictly above tau = max(degree threshold, mean + 2 * stddev of the
\* degree centralities): each such node gives one hub finding with its
\* degree, betweenness and pagerank metrics, a node at or below tau gives
\* none, and an empty graph gives none.  The degree threshold is the value
\* the call works with.
C20_HubsExactly ==
    calls < MaxCalls =>
        \A args \in DegreeArgs :
            HubsExactly(detect_hub_anomalies(graph, AnomalyDegreeThreshold(args)),
                        AnomalyDegreeThreshold(args))

\* The hub detection has returned H as the one hub of a graph of 6 nodes.
C20_Witness ==
    /\ op = "_detect_hub_anomalies"
    /\ Len(graph.nodes) = 6
    /\ Len(returned) = 1
    /\ returned[1].account = "H"
    /\ returned[1].risk_score > 0

\* Every hub finding has a risk_score between 0 and 1.
HubScoresInRange ==
    op = "_detect_hub_anomalies" =>
        \A k \in DOMAIN returned :
            returned[k].risk_score >= 0 /\ returned[k].risk_score <= ScoreOne

\* The account ids in increasing order.
AccountIds == <<"A", "B", "C", "D", "H", "N1", "N2", "N3", "N4", "N5">>

\* The place of the account id a in the lexicographic order.
AccountRank(a) == CHOOSE i \in DOMAIN AccountIds : AccountIds[i] = a

\* The cycle finding F may come before the cycle finding G: its risk_score
\* is higher, or the scores are equal and its cycle is shorter, or scores
\* and lengths are equal and its first account id is not the larger one.
CycleBefore(F, G) ==
    \/ F.risk_score > G.risk_score
    \/ /\ F.risk_score = G.risk_score
       /\ F.length < G.length
    \/ /\ F.risk_score = G.risk_score
       /\ F.length = G.length
       /\ AccountRank(F.cycle[1]) <= AccountRank(G.cycle[1])

\* C21: the list returned by detect_money_laundering_cycles is ordered by
\* risk_score descending, then length ascending, then first account id
\* ascending, whatever the order in which the cycles were enumerated.
C21_CyclesTotallyOrdered ==
    (op = "detect_money_laundering_cycles" /\ raised = "") =>
        \A i, j \in DOMAIN returned :
            i < j => CycleBefore(returned[i], returned[j])

\* The place of an anomaly kind in the order hub, burst, isolated_community.
KindRank(kind) ==
    CASE kind = "hub" -> 1
      [] kind = "burst" -> 2
      [] kind = "isolated_community" -> 3

C23_FailedLoadKeepsStore ==
    (calls < MaxCalls /\ transactions # <<>> /\ validate_transactions(transactions)) =>
        \A txs \in Corpora :
            load_transactions_call(txs).raised = "InvalidData" =>
                load_transactions_call(txs).transactions = transactions

====
